---- MODULE Spec2Model ----
(***************************************************************************)
(* Model of src/src/github_install_mcp/server.py: the failure classifier   *)
(* analyze_error, the command runner execute_command (reached through the  *)
(* tool execute_cli_command) and the one-command-per-call setup tool       *)
(* clone_and_setup_repo.                                                   *)
(*                                                                         *)
(* Python values: a str is a TLA+ string, a list is a sequence, a dict is  *)
(* a record (its keys are its DOMAIN), None is the empty tuple and an      *)
(* optional value x is <<x>>.  A call's result is a record saying whether  *)
(* the call raised, what it returned, and which subprocess.Popen           *)
(* invocations it made.                                                    *)
(***************************************************************************)
EXTENDS Integers, Sequences, FiniteSets, TLC

VARIABLES
    error_text,      \* analyze_error: the argument
    analysis,        \* analyze_error: the returned list
    command,         \* execute_cli_command: the command argument
    working_directory, \* execute_cli_command: the working_directory argument
    paths,           \* execute_command: the return paths taken so far
    setup_commands,  \* clone_and_setup_repo: the command list driven
    local_dir,       \* clone_and_setup_repo: the repository path
    start_step,      \* the current_step of the first call of the drive
    current_step,    \* the current_step the caller passes next
    last_step,       \* the current_step of the last call made (None before it)
    results,         \* the per-call dicts the caller has collected, in call order
    popen_calls,     \* the subprocess.Popen invocations made so far, in order
    ret,             \* the result of the last call
    pc               \* "idle" | "call" | "done" | "raised"

vars == <<error_text, analysis, command, working_directory, paths,
          setup_commands, local_dir, start_step, current_step, last_step,
          results, popen_calls, ret, pc>>

----------------------------------------------------------------------------
(* Bounds *)

\* the most fragments an error text is assembled from
MaxFrags == 2

\* the longest setup_commands list
MaxLen == 3

----------------------------------------------------------------------------
(* Python values *)

None == << >>

Some(x) == <<x>>

\* a call that returned v, having made the Popen invocations p
Return(v, p) == [raised |-> FALSE, value |-> v, exc |-> None, popen |-> p]

\* a call that raised e, having made the Popen invocations p
Raise(e, p) == [raised |-> TRUE, value |-> << >>, exc |-> Some(e), popen |-> p]

\* no call made yet
NoCall == [raised |-> FALSE, value |-> << >>, exc |-> None, popen |-> << >>]

\* Python's `sub in text` on str
Contains(text, sub) ==
    \E i \in 1..(Len(text) - Len(sub) + 1) : SubSeq(text, i, i + Len(sub) - 1) = sub

\* whether lst[i] is defined for a Python list of length n (negative i counts from the end)
InRange(n, i) == -n <= i /\ i < n

\* the 1-based position Python's lst[i] reads
PyPos(n, i) == IF i >= 0 THEN i + 1 ELSE n + i + 1

----------------------------------------------------------------------------
(* analyze_error *)

\* the rule table, in dict insertion order; a nested dict is a sequence of pairs
common_errors == <<
    [key |-> "ModuleNotFoundError", nested |-> FALSE, message |-> "Missing Python module", sub |-> << >>],
    [key |-> "ImportError", nested |-> FALSE, message |-> "Import error, possibly missing dependencies", sub |-> << >>],
    [key |-> "SyntaxError", nested |-> FALSE, message |-> "Python syntax error", sub |-> << >>],
    [key |-> "PermissionError", nested |-> FALSE, message |-> "Permission error, may require admin privileges", sub |-> << >>],
    [key |-> "FileNotFoundError", nested |-> FALSE, message |-> "File not found", sub |-> << >>],
    [key |-> "ConnectionError", nested |-> FALSE, message |-> "Connection error, may require network access", sub |-> << >>],
    [key |-> "pip", nested |-> TRUE, message |-> "",
     sub |-> << <<"Could not find a version", "Could not find the specified package version">>,
                <<"Command errored out", "Command execution error">> >>],
    [key |-> "conda", nested |-> TRUE, message |-> "",
     sub |-> << <<"PackagesNotFoundError", "Could not find the specified conda package">>,
                <<"CondaEnvironmentError", "Conda environment error">> >>] >>

UnrecognizedMarker == "Unrecognized error type"

\* the inner loop (lines 180-182) over the first k sub-rules of one nested rule
RECURSIVE SubLoop(_, _, _, _)
SubLoop(error_type, subs, text, k) ==
    IF k = 0 THEN << >>
    ELSE LET before == SubLoop(error_type, subs, text, k - 1)
         IN IF Contains(text, subs[k][1])
            THEN Append(before, error_type \o " - " \o subs[k][2])
            ELSE before

\* RuleStep with a nested rule's sub-rules tried only when the parent label occurs
RuleStep_parent_gated(r, text) ==
    IF r.nested
    THEN IF Contains(text, r.key) THEN SubLoop(r.key, r.sub, text, Len(r.sub)) ELSE << >>
    ELSE IF Contains(text, r.key) THEN <<r.message>> ELSE << >>

\* what one iteration of the outer loop appends for rule r
RuleStep(r, text) ==
    IF r.nested THEN SubLoop(r.key, r.sub, text, Len(r.sub))
    ELSE IF Contains(text, r.key) THEN <<r.message>> ELSE << >>

\* the outer loop (lines 178-184) over the first k rules
RECURSIVE RuleLoop(_, _)
RuleLoop(text, k) ==
    IF k = 0 THEN << >>
    ELSE RuleLoop(text, k - 1) \o RuleStep(common_errors[k], text)

\* analyze_error without the fallback of line 186
analyze_error_no_fallback(text) == RuleLoop(text, Len(common_errors))

analyze_error(text) ==
    LET found == RuleLoop(text, Len(common_errors))
    IN IF found # << >> THEN found ELSE <<UnrecognizedMarker>>

----------------------------------------------------------------------------
(* execute_command *)

\* line 218: the text the runner spawns, whatever the caller passed
HardcodedCommand == "D:\\Anaconda\\condabin\\conda.bat env list"

SpawnCommand(cmd) == HardcodedCommand

\* lines 220-228: Popen is given no cwd keyword
SpawnCwd(cwd) == None

\* directories that exist on the host
ExistingDirs == {"/repo"}

\* subprocess.Popen(...) followed by communicate(): what the host does with the
\* invocation.  o is what would happen in a directory that exists; a cwd that
\* does not exist makes Popen itself raise.
Popen(cmd, cwd, o) ==
    IF cwd # None /\ cwd[1] \notin ExistingDirs
    THEN [kind |-> "spawn_error", returncode |-> 0, stdout |-> "",
          stderr |-> "",
          text |-> "[Errno 2] No such file or directory: '" \o cwd[1] \o "'"]
    ELSE o

ExceptionCauses == <<"Exception occurred while executing command">>

\* execute_command with success computed as returncode >= 0
execute_command_nonneg_success(cmd, cwd, o) ==
    LET spawned == SpawnCommand(cmd)
        p == Popen(spawned, SpawnCwd(cwd), o)
        call == <<[args |-> spawned, cwd |-> SpawnCwd(cwd), outcome |-> p]>>
    IN IF p.kind = "exit"
       THEN Return([command |-> spawned,
                    exit_code |-> p.returncode,
                    stdout |-> p.stdout,
                    stderr |-> p.stderr,
                    success |-> (p.returncode >= 0)], call)
       ELSE Return([command |-> spawned,
                    exit_code |-> -1,
                    stdout |-> "",
                    stderr |-> p.text,
                    success |-> FALSE,
                    error_analysis |-> ExceptionCauses], call)

\* execute_command without the except clause of lines 238-246
execute_command_no_except(cmd, cwd, o) ==
    LET spawned == SpawnCommand(cmd)
        p == Popen(spawned, SpawnCwd(cwd), o)
        call == <<[args |-> spawned, cwd |-> SpawnCwd(cwd), outcome |-> p]>>
    IN IF p.kind = "exit"
       THEN Return([command |-> spawned,
                    exit_code |-> p.returncode,
                    stdout |-> p.stdout,
                    stderr |-> p.stderr,
                    success |-> (p.returncode = 0)], call)
       ELSE Raise(p.text, call)

execute_command(cmd, cwd, o) ==
    LET spawned == SpawnCommand(cmd)
        p == Popen(spawned, SpawnCwd(cwd), o)
        call == <<[args |-> spawned, cwd |-> SpawnCwd(cwd), outcome |-> p]>>
    IN IF p.kind = "exit"
       THEN Return([command |-> spawned,
                    exit_code |-> p.returncode,
                    stdout |-> p.stdout,
                    stderr |-> p.stderr,
                    success |-> (p.returncode = 0)], call)
       ELSE Return([command |-> spawned,
                    exit_code |-> -1,
                    stdout |-> "",
                    stderr |-> p.text,
                    success |-> FALSE,
                    error_analysis |-> ExceptionCauses], call)

execute_cli_command(cmd, wd, o) == execute_command(cmd, wd, o)

----------------------------------------------------------------------------
(* clone_and_setup_repo *)

\* clone_and_setup_repo with finished computed one element early
clone_and_setup_repo_early_finish(dir, cmds, step, o) ==
    IF step >= Len(cmds)
    THEN Return([repo_path |-> dir,
                 finished |-> TRUE,
                 message |-> "All setup commands have been executed."], << >>)
    ELSE IF ~InRange(Len(cmds), step)
    THEN Raise("IndexError: list index out of range", << >>)
    ELSE LET cmd == cmds[PyPos(Len(cmds), step)]
             result == execute_command(cmd, Some(dir), o)
             finished == (step = Len(cmds) - 2)
         IN IF result.raised THEN result
            ELSE Return([repo_path |-> dir,
                         step |-> step,
                         command |-> cmd,
                         result |-> result.value,
                         next_step |-> IF ~finished THEN Some(step + 1) ELSE None,
                         finished |-> finished], result.popen)

clone_and_setup_repo(dir, cmds, step, o) ==
    IF step >= Len(cmds)
    THEN Return([repo_path |-> dir,
                 finished |-> TRUE,
                 message |-> "All setup commands have been executed."], << >>)
    ELSE IF ~InRange(Len(cmds), step)
    THEN Raise("IndexError: list index out of range", << >>)
    ELSE LET cmd == cmds[PyPos(Len(cmds), step)]
             result == execute_command(cmd, Some(dir), o)
             finished == (step = Len(cmds) - 1)
         IN IF result.raised THEN result
            ELSE Return([repo_path |-> dir,
                         step |-> step,
                         command |-> cmd,
                         result |-> result.value,
                         next_step |-> IF ~finished THEN Some(step + 1) ELSE None,
                         finished |-> finished], result.popen)

----------------------------------------------------------------------------
(* Inputs and the host's behaviour *)

\* pieces of stderr text; a trigger may also be assembled from two pieces
Fragments == {
    "ModuleNotFoundError", "ImportError", "SyntaxError", "PermissionError",
    "FileNotFoundError", "ConnectionError", "Could not find a version",
    "Command errored out", "PackagesNotFoundError", "CondaEnvironmentError",
    "pip", "conda", "Module", "NotFoundError", "Could not find", " a version",
    "importerror", "error: " }

RECURSIVE Concat(_, _)
Concat(s, k) == IF k = 0 THEN "" ELSE Concat(s, k - 1) \o s[k]

Texts == { Concat(s, Len(s)) : s \in UNION { [1..k -> Fragments] : k \in 0..MaxFrags } }

\* command texts a caller passes
Commands == { "pip install -r requirements.txt", "conda env create -f environment.yml" }

Dirs == { "/repo", "/missing" }

WorkDirs == { None } \cup { Some(d) : d \in Dirs }

StderrTexts == { "", "ModuleNotFoundError: No module named 'torch'", "fatal: unknown failure" }

\* the child ran to its end: its status and its captured streams
ExitOutcomes ==
    [kind : {"exit"}, returncode : {0, 1, 127}, stdout : {"", "base\n"},
     stderr : StderrTexts, text : {""}]

\* Popen or communicate() raised: the exception's text
ErrorOutcomes ==
    [kind : {"spawn_error"}, returncode : {0}, stdout : {""}, stderr : {""},
     text : {"[Errno 12] Cannot allocate memory"}]
    \cup
    [kind : {"decode_error"}, returncode : {0}, stdout : {""}, stderr : {""},
     text : {"'utf-8' codec can't decode byte 0xff in position 0: invalid start byte"}]

Outcomes == ExitOutcomes \cup ErrorOutcomes

\* the outcomes the setup drive is explored with
SetupOutcomes ==
    { o \in Outcomes : \/ o.kind = "spawn_error"
                       \/ /\ o.kind = "exit"
                          /\ o.stdout = ""
                          /\ \/ o.returncode = 0 /\ o.stderr = ""
                             \/ o.returncode = 1 /\ o.stderr = "fatal: unknown failure" }

CommandLists == UNION { [1..k -> Commands] : k \in 0..MaxLen }

\* the current_step values a first call is made with
Steps == (0 - MaxLen - 1)..(MaxLen + 1)

\* which return path of execute_command a call result came from
PathOf(r) ==
    LET o == r.popen[Len(r.popen)].outcome
    IN IF o.kind # "exit" THEN "exception"
       ELSE IF o.returncode = 0 THEN "zero" ELSE "nonzero"

----------------------------------------------------------------------------
(* The failure classifier applied to one error text *)

InitClassify ==
    /\ error_text \in Texts
    /\ analysis = << >>
    /\ command = ""
    /\ working_directory = None
    /\ paths = {}
    /\ setup_commands = << >>
    /\ local_dir = ""
    /\ start_step = 0
    /\ current_step = 0
    /\ last_step = None
    /\ results = << >>
    /\ popen_calls = << >>
    /\ ret = NoCall
    /\ pc = "call"

AnalyzeError ==
    /\ pc = "call"
    /\ analysis' = analyze_error(error_text)
    /\ pc' = "done"
    /\ UNCHANGED <<error_text, command, working_directory, paths, setup_commands,
                   local_dir, start_step, current_step, last_step, results,
                   popen_calls, ret>>

NextClassify == AnalyzeError

SpecClassify == InitClassify /\ [][NextClassify]_vars

----------------------------------------------------------------------------
(* The tool execute_cli_command, called any number of times *)

InitRun ==
    /\ error_text = ""
    /\ analysis = << >>
    /\ command = ""
    /\ working_directory = None
    /\ paths = {}
    /\ setup_commands = << >>
    /\ local_dir = ""
    /\ start_step = 0
    /\ current_step = 0
    /\ last_step = None
    /\ results = << >>
    /\ popen_calls = << >>
    /\ ret = NoCall
    /\ pc = "idle"

ExecuteCliCommand ==
    \E c \in Commands, wd \in WorkDirs, o \in Outcomes :
        LET r == execute_cli_command(c, wd, o)
        IN /\ command' = c
           /\ working_directory' = wd
           /\ ret' = r
           /\ popen_calls' = r.popen
           /\ paths' = paths \cup { PathOf(r) }
           /\ pc' = "done"
           /\ UNCHANGED <<error_text, analysis, setup_commands, local_dir,
                          start_step, current_step, last_step, results>>

NextRun == ExecuteCliCommand

SpecRun == InitRun /\ [][NextRun]_vars

----------------------------------------------------------------------------
(* The tool clone_and_setup_repo, driven by a caller that makes a first call *)
(* and then follows each returned next_step until finished is reported       *)

InitSetup ==
    /\ error_text = ""
    /\ analysis = << >>
    /\ command = ""
    /\ working_directory = None
    /\ paths = {}
    /\ setup_commands \in CommandLists
    /\ local_dir \in Dirs
    /\ start_step \in Steps
    /\ current_step = start_step
    /\ last_step = None
    /\ results = << >>
    /\ popen_calls = << >>
    /\ ret = NoCall
    /\ pc = "call"

CloneAndSetupRepo ==
    /\ pc = "call"
    /\ \E o \in SetupOutcomes :
        LET r == clone_and_setup_repo(local_dir, setup_commands, current_step, o)
        IN /\ ret' = r
           /\ last_step' = Some(current_step)
           /\ popen_calls' = popen_calls \o r.popen
           /\ results' = IF ~r.raised /\ "result" \in DOMAIN r.value
                         THEN Append(results, r.value) ELSE results
           /\ pc' = IF r.raised THEN "raised"
                    ELSE IF r.value.finished THEN "done" ELSE "call"
           /\ current_step' = IF ~r.raised /\ ~r.value.finished
                              THEN r.value.next_step[1] ELSE current_step
    /\ UNCHANGED <<error_text, analysis, command, working_directory, paths,
                   setup_commands, local_dir, start_step>>

NextSetup == CloneAndSetupRepo

SpecSetup == InitSetup /\ [][NextSetup]_vars

----------------------------------------------------------------------------
(* Properties *)

\* the last Popen invocation's outcome
LastOutcome == popen_calls[Len(popen_calls)].outcome

\* the rules as the specification lists them: trigger, explanation as reported
RuleTable == <<
    [trigger |-> "ModuleNotFoundError", explanation |-> "Missing Python module"],
    [trigger |-> "ImportError", explanation |-> "Import error, possibly missing dependencies"],
    [trigger |-> "SyntaxError", explanation |-> "Python syntax error"],
    [trigger |-> "PermissionError", explanation |-> "Permission error, may require admin privileges"],
    [trigger |-> "FileNotFoundError", explanation |-> "File not found"],
    [trigger |-> "ConnectionError", explanation |-> "Connection error, may require network access"],
    [trigger |-> "Could not find a version", explanation |-> "pip - Could not find the specified package version"],
    [trigger |-> "Command errored out", explanation |-> "pip - Command execution error"],
    [trigger |-> "PackagesNotFoundError", explanation |-> "conda - Could not find the specified conda package"],
    [trigger |-> "CondaEnvironmentError", explanation |-> "conda - Conda environment error"] >>

\* the rules whose trigger occurs in the text, in table order
Matching(text) ==
    LET Hit(r) == Contains(text, r.trigger)
    IN SelectSeq(RuleTable, Hit)

\* out is the explanations of the matching rules, each once, in table order
ExactlyMatching(out, text) ==
    LET m == Matching(text)
    IN /\ Len(out) = Len(m)
       /\ \A i \in 1..Len(m) : out[i] = m[i].explanation

IsExplanation(x) == \E k \in 1..Len(RuleTable) : RuleTable[k].explanation = x

\* C1: a run that ended with a nonzero exit code returns a record whose causes
\* are the classifier's non-empty output for the captured stderr
CE_C1 ==
    (pc = "done" /\ LastOutcome.kind = "exit" /\ LastOutcome.returncode # 0)
    => /\ ~ret.raised
       /\ "error_analysis" \in DOMAIN ret.value
       /\ ret.value.error_analysis # << >>
       /\ ret.value.error_analysis = analyze_error(ret.value.stderr)

\* C2: the process spawned runs exactly the text the caller passed, and the
\* record's command field is that text
CE_C2 ==
    pc = "done"
    => /\ Len(popen_calls) = 1
       /\ popen_calls[1].args = command
       /\ ~ret.raised
       /\ ret.value.command = command

\* C3: a drive from step 0 that has reported finished has run every command of
\* the list exactly once, in list order, n runs in all
CE_C3 ==
    (pc = "done" /\ start_step = 0)
    => /\ Len(popen_calls) = Len(setup_commands)
       /\ \A i \in 1..Len(popen_calls) : popen_calls[i].args = setup_commands[i]

\* C4: every record the runner returns has success true iff exit_code is 0
T_C4 ==
    pc = "done"
    => /\ ~ret.raised
       /\ ret.value.success <=> (ret.value.exit_code = 0)

W_C4 ==
    /\ pc = "done"
    /\ paths = {"zero", "nonzero", "exception"}
    /\ LastOutcome.kind = "spawn_error"
    /\ ret.value.exit_code = -1
    /\ ~ret.value.success

\* C5: when the child cannot be spawned the runner does not raise; it returns
\* exit_code -1, empty stdout, the exception text in stderr, success false and
\* the fixed one-entry list of causes
T_C5 ==
    (pc = "done" /\ LastOutcome.kind = "spawn_error")
    => /\ ~ret.raised
       /\ ret.value.exit_code = -1
       /\ ret.value.stdout = ""
       /\ ret.value.stderr = LastOutcome.text
       /\ ret.value.success = FALSE
       /\ "error_analysis" \in DOMAIN ret.value
       /\ Len(ret.value.error_analysis) = 1
       /\ ret.value.error_analysis = <<"Exception occurred while executing command">>

W_C5 ==
    /\ pc = "done"
    /\ LastOutcome.kind = "spawn_error"
    /\ ret.value.stderr = "[Errno 12] Cannot allocate memory"
    /\ Len(ret.value.error_analysis) = 1

\* C6: a call with a working directory that does not exist returns exit_code -1
\* and a non-empty stderr
CE_C6 ==
    (pc = "done" /\ working_directory # None /\ working_directory[1] \notin ExistingDirs)
    => /\ ~ret.raised
       /\ ret.value.exit_code = -1
       /\ ret.value.stderr # ""

\* C7: the classifier never returns an empty list; a text with no trigger (the
\* empty text included) yields exactly the marker; the marker never appears
\* beside a rule's explanation
T_C7 ==
    pc = "done"
    => /\ analysis # << >>
       /\ Matching(error_text) = << >> => analysis = <<"Unrecognized error type">>
       /\ (\E i \in 1..Len(analysis) : analysis[i] = "Unrecognized error type")
          => \A j \in 1..Len(analysis) : ~IsExplanation(analysis[j])

W_C7 ==
    /\ pc = "done"
    /\ error_text = ""
    /\ analysis = <<"Unrecognized error type">>

\* C8 as stated: for every error text the output is exactly the explanations of
\* the rules whose trigger occurs in it, each once, in table order
CE_C8 == pc = "done" => ExactlyMatching(analysis, error_text)

\* C8 as amended: for every error text in which at least one trigger occurs, the
\* output is exactly the explanations of the rules whose trigger occurs in it,
\* each once, in table order, a nested sub-rule reported as "<parent> - <sub
\* explanation>" whether or not the parent label occurs in the text
T_C8 ==
    (pc = "done" /\ Matching(error_text) # << >>)
    => ExactlyMatching(analysis, error_text)

W_C8 ==
    /\ pc = "done"
    /\ error_text = "PackagesNotFoundError" \o "ModuleNotFoundError"
    /\ ~Contains(error_text, "conda")
    /\ analysis = <<"Missing Python module",
                    "conda - Could not find the specified conda package">>

CE_C10 ==
    last_step # None
    => LET n == Len(setup_commands)
           s == last_step[1]
       IN /\ ~ret.raised
          /\ \/ /\ ret.popen = << >>
                /\ ret.value.finished
                /\ s >= n
             \/ /\ Len(ret.popen) = 1
                /\ InRange(n, s)
                /\ IF PyPos(n, s) = n
                   THEN ret.value.finished /\ ret.value.next_step = None
                   ELSE ~ret.value.finished /\ ret.value.next_step = Some(PyPos(n, s))

====
